---- MODULE Spec2Model ----
(***************************************************************************)
(* Identity reconciliation service (BiteSpeed): the /identify pipeline.    *)
(*                                                                         *)
(*   controller  (src/unnamed/part_001)  validation and normalisation      *)
(*   service     (src/unnamed/part_000)  match, cluster, merge, create     *)
(*   repository  (src/src/repositories/contact.repository.ts)  queries     *)
(*                                                                         *)
(* Strings are sequences of characters.  null and undefined are the        *)
(* one-element tuples NULL and UNDEFINED, whose element is no character.   *)
(* A Contact row is a record; a null linkedId is 0 (ids start at 1, and    *)
(* the service tests linkedId by truthiness).                              *)
(***************************************************************************)
EXTENDS Integers, Sequences, FiniteSets, TLC

VARIABLES
    contacts,   \* the committed Contact table: a function from id to row
    pre,        \* the table before the last request that ran alone
    body,       \* the body of the last request that ran alone
    resp,       \* the HTTP response to that request
    ops,        \* the queries and the writes that request made on the table
    repeat,     \* that request repeated the arguments of the one before it
    tx          \* the transactions of the requests that run concurrently

vars == <<contacts, pre, body, resp, ops, repeat, tx>>

----------------------------------------------------------------------------
(* Bounds of the model *)

\* rows the table may hold: a request that would add one more is not taken
MaxContacts == 4
\* the largest createdAt instant
MaxTime == 1

----------------------------------------------------------------------------
(* Values *)

NULL == <<"null">>
UNDEFINED == <<"undefined">>

\* The request bodies' field values: absent, empty, blank, and non-blank
\* strings with surrounding blanks and upper case.
RawEmails == { UNDEFINED, <<>>, <<" ">>, <<" ", "A">>, <<"b">> }

RawPhones == { UNDEFINED, <<>>, <<" ">>, <<"1", " ">> }

\* JavaScript truthiness of a string | null | undefined
Truthy(v) == v # NULL /\ v # UNDEFINED /\ v # <<>>

\* v || null
OrNull(v) == IF Truthy(v) THEN v ELSE NULL

\* v ?? null
CoalesceNull(v) == IF v = UNDEFINED THEN NULL ELSE v

RECURSIVE TrimStart(_)
TrimStart(s) ==
    IF s # <<>> /\ Head(s) = " " THEN TrimStart(Tail(s)) ELSE s

RECURSIVE TrimEnd(_)
TrimEnd(s) ==
    IF s # <<>> /\ s[Len(s)] = " " THEN TrimEnd(SubSeq(s, 1, Len(s) - 1)) ELSE s

\* String.prototype.trim
Trim(s) == TrimEnd(TrimStart(s))

LowerChar(c) ==
    CASE c = "A" -> "a"
      [] c = "B" -> "b"
      [] OTHER -> c

\* String.prototype.toLowerCase
ToLowerCase(s) == [i \in 1..Len(s) |-> LowerChar(s[i])]

----------------------------------------------------------------------------
(* Contact rows and the repository (contact.repository.ts) *)

PRIMARY == "primary"
SECONDARY == "secondary"

EmptyTable == << >>

Max(S) == CHOOSE x \in S : \A y \in S : y <= x

\* the id the table's sequence assigns to the next row
NextId(db) == IF DOMAIN db = {} THEN 1 ELSE Max(DOMAIN db) + 1

\* the latest creation instant in the table
LastTime(db) == IF DOMAIN db = {} THEN 0 ELSE Max({db[i].createdAt : i \in DOMAIN db})

\* the instants the next row may be created at: the clock has not moved
\* since the last creation, or it has
CreationTimes(db) == {t \in {LastTime(db), LastTime(db) + 1} : t <= MaxTime}

\* orderBy: { createdAt: 'asc' }; rows of one instant come in id order
RECURSIVE OrderByCreatedAt(_, _)
OrderByCreatedAt(db, S) ==
    IF S = {} THEN <<>>
    ELSE LET m == CHOOSE i \in S : \A j \in S :
                     \/ db[i].createdAt < db[j].createdAt
                     \/ db[i].createdAt = db[j].createdAt /\ i <= j
         IN <<db[m]>> \o OrderByCreatedAt(db, S \ {m})

findMatchingContacts(db, email, phoneNumber) ==
    IF ~Truthy(email) /\ ~Truthy(phoneNumber) THEN <<>>
    ELSE OrderByCreatedAt(db,
            {i \in DOMAIN db :
                /\ ~db[i].deleted
                /\ \/ Truthy(email) /\ db[i].email = email
                   \/ Truthy(phoneNumber) /\ db[i].phoneNumber = phoneNumber})

\* whether findMatchingContacts reaches the table
MatchQueries(email, phoneNumber) ==
    IF ~Truthy(email) /\ ~Truthy(phoneNumber) THEN 0 ELSE 1

findContactsByPrimaryId(db, primaryId) ==
    OrderByCreatedAt(db,
        {i \in DOMAIN db : db[i].linkedId = primaryId /\ ~db[i].deleted})

\* findUnique: the row, deleted or not, as a sequence of at most one row
findContactById(db, id) ==
    IF id \in DOMAIN db THEN <<db[id]>> ELSE <<>>

NewRow(id, email, phoneNumber, linkedId, linkPrecedence, now) ==
    [id |-> id,
     email |-> CoalesceNull(email),
     phoneNumber |-> CoalesceNull(phoneNumber),
     linkedId |-> linkedId,
     linkPrecedence |-> linkPrecedence,
     createdAt |-> now,
     deleted |-> FALSE]

createContact(db, email, phoneNumber, linkedId, linkPrecedence, now) ==
    LET row == NewRow(NextId(db), email, phoneNumber, linkedId, linkPrecedence, now)
    IN [i \in DOMAIN db \cup {row.id} |-> IF i = row.id THEN row ELSE db[i]]

\* an update that writes the whole row: the fields data leaves out are lost
updateContactWholeRow(db, id, data) ==
    [db EXCEPT ![id] =
        [f \in DOMAIN db[id] |->
            IF f \in DOMAIN data THEN data[f]
            ELSE IF f \in {"email", "phoneNumber"} THEN NULL
            ELSE db[id][f]]]

\* a partial update: data holds linkedId, linkPrecedence or both
updateContact(db, id, data) ==
    [db EXCEPT ![id] =
        [f \in DOMAIN db[id] |-> IF f \in DOMAIN data THEN data[f] ELSE db[id][f]]]

----------------------------------------------------------------------------
(* The service (ContactService) run in one piece: a call that runs alone *)

\* Map.set on a Map kept as the sequence of its values in insertion order:
\* a key already present keeps its place and takes the new value
MapSet(m, row) ==
    IF \E k \in 1..Len(m) : m[k].id = row.id
    THEN [k \in 1..Len(m) |-> IF m[k].id = row.id THEN row ELSE m[k]]
    ELSE Append(m, row)

RECURSIVE MapSetAll(_, _)
MapSetAll(m, rows) ==
    IF rows = <<>> THEN m ELSE MapSetAll(MapSet(m, Head(rows)), Tail(rows))

MapHas(m, id) == \E k \in 1..Len(m) : m[k].id = id

\* Set.add on a Set kept as the sequence of its members in insertion order
SetAdd(s, x) == IF \E k \in 1..Len(s) : s[k] = x THEN s ELSE Append(s, x)

\* lines 66-73: the primary of each matched contact
RECURSIVE PrimaryIdsOf(_, _)
PrimaryIdsOf(matchingContacts, acc) ==
    IF matchingContacts = <<>> THEN acc
    ELSE LET c == Head(matchingContacts)
         IN PrimaryIdsOf(Tail(matchingContacts),
                IF c.linkPrecedence = PRIMARY THEN SetAdd(acc, c.id)
                ELSE IF c.linkedId # 0 THEN SetAdd(acc, c.linkedId)
                ELSE acc)

\* a comparator with its operands exchanged: youngest first
RECURSIVE SortInsertYoungestFirst(_, _)
SortInsertYoungestFirst(sorted, row) ==
    IF sorted = <<>> THEN <<row>>
    ELSE IF sorted[Len(sorted)].createdAt >= row.createdAt THEN Append(sorted, row)
    ELSE Append(SortInsertYoungestFirst(SubSeq(sorted, 1, Len(sorted) - 1), row),
                sorted[Len(sorted)])

\* Array.prototype.sort by createdAt (stable): insertion after the last
\* element that is not younger
RECURSIVE SortInsert(_, _)
SortInsert(sorted, row) ==
    IF sorted = <<>> THEN <<row>>
    ELSE IF sorted[Len(sorted)].createdAt <= row.createdAt THEN Append(sorted, row)
    ELSE Append(SortInsert(SubSeq(sorted, 1, Len(sorted) - 1), row), sorted[Len(sorted)])

RECURSIVE SortByCreatedAt(_, _)
SortByCreatedAt(rows, acc) ==
    IF rows = <<>> THEN acc
    ELSE SortByCreatedAt(Tail(rows), SortInsert(acc, Head(rows)))

\* lines 75-87: one round of the loop over primaryIds
CollectOne(db, contactMap, primaryId) ==
    LET found == findContactById(db, primaryId)
        withPrimary ==
            IF ~MapHas(contactMap, primaryId) /\ found # <<>> /\ ~found[1].deleted
            THEN MapSet(contactMap, found[1])
            ELSE contactMap
    IN MapSetAll(withPrimary, findContactsByPrimaryId(db, primaryId))

RECURSIVE CollectLoop(_, _, _, _)
CollectLoop(db, contactMap, primaryIds, reads) ==
    IF primaryIds = <<>> THEN [contactMap |-> contactMap, reads |-> reads]
    ELSE CollectLoop(db,
            CollectOne(db, contactMap, Head(primaryIds)),
            Tail(primaryIds),
            reads + (IF MapHas(contactMap, Head(primaryIds)) THEN 1 ELSE 2))

\* the cluster, oldest first, and the number of queries made
collectFullCluster(db, matchingContacts) ==
    LET loop == CollectLoop(db, MapSetAll(<<>>, matchingContacts),
                            PrimaryIdsOf(matchingContacts, <<>>), 0)
    IN [contacts |-> SortByCreatedAt(loop.contactMap, <<>>), reads |-> loop.reads]

IsPrimary(c) == c.linkPrecedence = PRIMARY

\* the secondaries of a demoted primary left as they are
RelinkNone(db, secondaries, oldestId) == db

\* the secondaries of a demoted primary released as primaries of their own
RECURSIVE RelinkAsPrimaries(_, _, _)
RelinkAsPrimaries(db, secondaries, oldestId) ==
    IF secondaries = <<>> THEN db
    ELSE RelinkAsPrimaries(
            updateContact(db, Head(secondaries).id,
                          [linkedId |-> 0, linkPrecedence |-> PRIMARY]),
            Tail(secondaries), oldestId)

\* lines 124-128: re-point the secondaries of a demoted primary
RECURSIVE RelinkAll(_, _, _)
RelinkAll(db, secondaries, oldestId) ==
    IF secondaries = <<>> THEN db
    ELSE RelinkAll(updateContact(db, Head(secondaries).id, [linkedId |-> oldestId]),
                   Tail(secondaries), oldestId)

\* the newer primary and its secondaries left as they are
DemoteNone(db, newerPrimary, oldestId) == db

\* lines 112-129: one round of the loop over the newer primaries
DemoteOne(db, newerPrimary, oldestId) ==
    LET demoted == updateContact(db, newerPrimary.id,
                       [linkedId |-> oldestId, linkPrecedence |-> SECONDARY])
    IN RelinkAll(demoted, findContactsByPrimaryId(demoted, newerPrimary.id), oldestId)

RECURSIVE DemoteLoop(_, _, _, _, _)
DemoteLoop(db, newer, oldestId, reads, writes) ==
    IF newer = <<>> THEN [db |-> db, reads |-> reads, writes |-> writes]
    ELSE LET n == Head(newer)
             demoted == updateContact(db, n.id,
                            [linkedId |-> oldestId, linkPrecedence |-> SECONDARY])
         IN DemoteLoop(DemoteOne(db, n, oldestId), Tail(newer), oldestId,
                reads + 1,
                writes + 1 + Len(findContactsByPrimaryId(demoted, n.id)))

\* the last of the sorted primaries kept and the others demoted
resolvePrimaryKeepsLast(db, clusterContacts) ==
    LET primaries == SelectSeq(clusterContacts, IsPrimary)
    IN IF Len(primaries) <= 1
       THEN [db |-> db, primary |-> primaries, reads |-> 0, writes |-> 0]
       ELSE LET sorted == SortByCreatedAt(primaries, <<>>)
                last == sorted[Len(sorted)]
                loop == DemoteLoop(db, SubSeq(sorted, 1, Len(sorted) - 1), last.id, 0, 0)
            IN [db |-> loop.db, primary |-> <<last>>,
                reads |-> loop.reads, writes |-> loop.writes]

\* primary is the sequence of at most one row: primaries[0], undefined for
\* an empty array
resolvePrimary(db, clusterContacts) ==
    LET primaries == SelectSeq(clusterContacts, IsPrimary)
    IN IF Len(primaries) <= 1
       THEN [db |-> db, primary |-> primaries, reads |-> 0, writes |-> 0]
       ELSE LET sorted == SortByCreatedAt(primaries, <<>>)
                oldestPrimary == sorted[1]
                loop == DemoteLoop(db, Tail(sorted), oldestPrimary.id, 0, 0)
            IN [db |-> loop.db, primary |-> <<oldestPrimary>>,
                reads |-> loop.reads, writes |-> loop.writes]

refreshCluster(db, primary) == findContactsByPrimaryId(db, primary.id)

\* the idempotency check comparing both fields, an absent one as null
comboExistsExactPair(allContacts, email, phoneNumber) ==
    \E k \in 1..Len(allContacts) :
        /\ allContacts[k].email = CoalesceNull(email)
        /\ allContacts[k].phoneNumber = CoalesceNull(phoneNumber)

\* the idempotency check left out
comboNeverExists(allContacts, email, phoneNumber) == FALSE

comboExists(allContacts, email, phoneNumber) ==
    \E k \in 1..Len(allContacts) :
        /\ ~Truthy(email) \/ allContacts[k].email = email
        /\ ~Truthy(phoneNumber) \/ allContacts[k].phoneNumber = phoneNumber

hasNewInfo(allContacts, email, phoneNumber) ==
    \/ Truthy(email) /\ ~\E k \in 1..Len(allContacts) : allContacts[k].email = email
    \/ Truthy(phoneNumber)
          /\ ~\E k \in 1..Len(allContacts) : allContacts[k].phoneNumber = phoneNumber

\* lines 148-165: whether createSecondaryIfNeeded creates a row
CreatesSecondary(cluster, primary, email, phoneNumber) ==
    LET allContacts == <<primary>> \o cluster
    IN /\ ~comboExists(allContacts, email, phoneNumber)
       /\ \/ hasNewInfo(allContacts, email, phoneNumber)
          \/ /\ ~comboExists(allContacts, email, phoneNumber)
             /\ Truthy(email) \/ Truthy(phoneNumber)

\* the new row linked to a member of the cluster instead of its primary
createSecondaryUnderMember(db, cluster, primary, email, phoneNumber, now) ==
    IF CreatesSecondary(cluster, primary, email, phoneNumber)
    THEN createContact(db, email, phoneNumber,
                       IF cluster # <<>> THEN cluster[Len(cluster)].id ELSE primary.id,
                       SECONDARY, now)
    ELSE db

createSecondaryIfNeeded(db, cluster, primary, email, phoneNumber, now) ==
    IF CreatesSecondary(cluster, primary, email, phoneNumber)
    THEN createContact(db, email, phoneNumber, primary.id, SECONDARY, now)
    ELSE db

Includes(list, x) == \E k \in 1..Len(list) : list[k] = x

\* the emails of the secondaries appended without looking for repeats
RECURSIVE CollectEmailsAll(_, _)
CollectEmailsAll(secondaries, emails) ==
    IF secondaries = <<>> THEN emails
    ELSE LET e == Head(secondaries).email
         IN CollectEmailsAll(Tail(secondaries),
                IF Truthy(e) THEN Append(emails, e) ELSE emails)

RECURSIVE CollectEmails(_, _)
CollectEmails(secondaries, emails) ==
    IF secondaries = <<>> THEN emails
    ELSE LET e == Head(secondaries).email
         IN CollectEmails(Tail(secondaries),
                IF Truthy(e) /\ ~Includes(emails, e) THEN Append(emails, e) ELSE emails)

RECURSIVE CollectPhones(_, _)
CollectPhones(secondaries, phoneNumbers) ==
    IF secondaries = <<>> THEN phoneNumbers
    ELSE LET p == Head(secondaries).phoneNumber
         IN CollectPhones(Tail(secondaries),
                IF Truthy(p) /\ ~Includes(phoneNumbers, p)
                THEN Append(phoneNumbers, p) ELSE phoneNumbers)

buildResponse(primary, secondaries) ==
    [status |-> 200,
     primaryContactId |-> primary.id,
     emails |-> CollectEmails(secondaries,
                    IF Truthy(primary.email) THEN <<primary.email>> ELSE <<>>),
     phoneNumbers |-> CollectPhones(secondaries,
                    IF Truthy(primary.phoneNumber) THEN <<primary.phoneNumber>> ELSE <<>>),
     secondaryContactIds |-> [k \in 1..Len(secondaries) |-> secondaries[k].id]]

\* an error response of the error middleware
ErrorResponse(status) ==
    [status |-> status, primaryContactId |-> 0, emails |-> <<>>,
     phoneNumbers |-> <<>>, secondaryContactIds |-> <<>>]

\* the first row of an identity created with the wrong precedence
handleNoMatchAsSecondary(db, email, phoneNumber, now) ==
    LET created == createContact(db, email, phoneNumber, 0, SECONDARY, now)
    IN [db |-> created,
        resp |-> buildResponse(created[NextId(db)], <<>>),
        reads |-> 0, writes |-> 1]

handleNoMatch(db, email, phoneNumber, now) ==
    LET created == createContact(db, email, phoneNumber, 0, PRIMARY, now)
    IN [db |-> created,
        resp |-> buildResponse(created[NextId(db)], <<>>),
        reads |-> 0, writes |-> 1]

\* the response built from the cluster read before the secondary is created
handleMatchStaleCluster(db, matchingContacts, email, phoneNumber, now) ==
    LET all == collectFullCluster(db, matchingContacts)
        resolved == resolvePrimary(db, all.contacts)
    IN IF resolved.primary = <<>>
       THEN [db |-> db, resp |-> ErrorResponse(500),
             reads |-> all.reads + resolved.reads, writes |-> resolved.writes]
       ELSE LET primary == resolved.primary[1]
                updatedCluster == refreshCluster(resolved.db, primary)
                final == createSecondaryIfNeeded(resolved.db, updatedCluster, primary,
                                                 email, phoneNumber, now)
            IN [db |-> final,
                resp |-> buildResponse(primary, updatedCluster),
                reads |-> all.reads + resolved.reads + 1,
                writes |-> resolved.writes
                    + (IF final = resolved.db THEN 0 ELSE 1)]

\* resolvePrimary returning undefined makes refreshCluster throw (primary.id):
\* the transaction rolls back and the middleware answers 500
handleMatch(db, matchingContacts, email, phoneNumber, now) ==
    LET all == collectFullCluster(db, matchingContacts)
        resolved == resolvePrimary(db, all.contacts)
    IN IF resolved.primary = <<>>
       THEN [db |-> db, resp |-> ErrorResponse(500),
             reads |-> all.reads + resolved.reads, writes |-> resolved.writes]
       ELSE LET primary == resolved.primary[1]
                updatedCluster == refreshCluster(resolved.db, primary)
                final == createSecondaryIfNeeded(resolved.db, updatedCluster, primary,
                                                 email, phoneNumber, now)
                finalCluster == refreshCluster(final, primary)
            IN [db |-> final,
                resp |-> buildResponse(primary, finalCluster),
                reads |-> all.reads + resolved.reads + 2,
                writes |-> resolved.writes
                    + (IF final = resolved.db THEN 0 ELSE 1)]

\* ContactService.identify in a transaction nothing else interleaves with
identify(db, email, phoneNumber, now) ==
    LET matchingContacts == findMatchingContacts(db, email, phoneNumber)
        r == IF Len(matchingContacts) = 0
             THEN handleNoMatch(db, email, phoneNumber, now)
             ELSE handleMatch(db, matchingContacts, email, phoneNumber, now)
    IN [r EXCEPT !.reads = @ + MatchQueries(email, phoneNumber)]

----------------------------------------------------------------------------
(* The controller (ContactController.identify) *)

NormalizeEmail(email) == IF Truthy(email) THEN ToLowerCase(Trim(email)) ELSE email

NormalizePhone(phoneNumber) == IF Truthy(phoneNumber) THEN Trim(phoneNumber) ELSE phoneNumber

\* a check for absent fields only, which lets empty strings through
RejectedOnlyAbsent(b) == b.email = UNDEFINED /\ b.phoneNumber = UNDEFINED

\* line 13: the request is refused
Rejected(b) == ~Truthy(b.email) /\ ~Truthy(b.phoneNumber)

\* line 30: the arguments the service is called with
ServiceEmail(b) == OrNull(NormalizeEmail(b.email))

ServicePhone(b) == OrNull(NormalizePhone(b.phoneNumber))

controllerIdentify(db, b, now) ==
    IF Rejected(b)
    THEN [db |-> db, resp |-> ErrorResponse(400), reads |-> 0, writes |-> 0]
    ELSE identify(db, ServiceEmail(b), ServicePhone(b), now)

----------------------------------------------------------------------------
(* Requests that run one at a time *)

\* the requests that may be in flight together
Procs == {1, 2}

NoRows == << >>

\* the state of a request between awaits: its place in the service, the
\* locals of handleMatch, collectFullCluster and resolvePrimary, and the
\* uncommitted writes of its transaction; conflict records that the
\* transaction was rolled back while it waited for a row another one had locked
IdleTx ==
    [pc |-> "idle", email |-> NULL, phoneNumber |-> NULL,
     contactMap |-> <<>>, primaryIds |-> <<>>, newer |-> <<>>,
     secondaries |-> <<>>, primary |-> <<>>,
     upd |-> NoRows, ins |-> NoRows, resp |-> ErrorResponse(0),
     conflict |-> FALSE]

NoBody == [email |-> UNDEFINED, phoneNumber |-> UNDEFINED]

NoResponse == ErrorResponse(0)

NoOps == [reads |-> 0, writes |-> 0]

Init ==
    /\ contacts = EmptyTable
    /\ pre = EmptyTable
    /\ body = NoBody
    /\ resp = NoResponse
    /\ ops = NoOps
    /\ repeat = FALSE
    /\ tx = [p \in Procs |-> IdleTx]

\* two bodies the controller turns into the same service call
SameArguments(b1, b2) ==
    /\ ~Rejected(b1) /\ ~Rejected(b2)
    /\ ServiceEmail(b1) = ServiceEmail(b2)
    /\ ServicePhone(b1) = ServicePhone(b2)

\* POST /identify handled from the request to the response
Identify ==
    /\ \E e \in RawEmails, p \in RawPhones, now \in CreationTimes(contacts) :
       \E b \in {[email |-> e, phoneNumber |-> p]} :
       \E r \in {controllerIdentify(contacts, b, now)} :
          /\ Cardinality(DOMAIN r.db) <= MaxContacts
          /\ contacts' = r.db
          /\ pre' = contacts
          /\ body' = b
          /\ resp' = r.resp
          /\ ops' = [reads |-> r.reads, writes |-> r.writes]
          /\ repeat' = (resp.status = 200 /\ SameArguments(body, b))
    /\ UNCHANGED tx

Next == Identify

Spec == Init /\ [][Next]_vars

----------------------------------------------------------------------------
(* Requests that run one at a time, over two emails and two phone numbers *)

\* rows the table may hold when the requests carry two phone numbers
MaxWide == 3

WidePhones == RawPhones \cup { <<"2">> }

\* POST /identify handled from the request to the response
IdentifyWide ==
    /\ \E e \in RawEmails, p \in WidePhones, now \in CreationTimes(contacts) :
       \E b \in {[email |-> e, phoneNumber |-> p]} :
       \E r \in {controllerIdentify(contacts, b, now)} :
          /\ Cardinality(DOMAIN r.db) <= MaxWide
          /\ contacts' = r.db
          /\ pre' = contacts
          /\ body' = b
          /\ resp' = r.resp
          /\ ops' = [reads |-> r.reads, writes |-> r.writes]
          /\ repeat' = (resp.status = 200 /\ SameArguments(body, b))
    /\ UNCHANGED tx

NextWide == IdentifyWide

SpecWide == Init /\ [][NextWide]_vars

----------------------------------------------------------------------------
(* Requests that run concurrently.                                         *)
(*                                                                         *)
(* identify opens prisma.$transaction(fn) with no options (part_000 line   *)
(* 9): an interactive transaction at the database's default isolation      *)
(* level, PostgreSQL's READ COMMITTED.  Every awaited query is one step;    *)
(* it sees the rows committed when it runs and the transaction's own       *)
(* writes.  An UPDATE locks its row until the transaction ends, and an      *)
(* UPDATE of a row another open transaction has updated waits for it.      *)
(* Nothing in identify or in the controller runs a call again.             *)

\* rows the requests that ran before the concurrent ones may have left
MaxSeed == 2

Open(q) == tx[q].pc \notin {"idle", "done"}

AllIdle == \A q \in Procs : tx[q].pc = "idle"

\* data laid over a row, or over earlier data
Overlay(row, data) ==
    [f \in DOMAIN row \cup DOMAIN data |-> IF f \in DOMAIN data THEN data[f] ELSE row[f]]

\* the table a statement of the transaction with locals l sees, and the
\* table its commit leaves
View(l) ==
    [i \in DOMAIN contacts \cup DOMAIN l.ins |->
        IF i \in DOMAIN l.ins THEN l.ins[i]
        ELSE IF i \in DOMAIN l.upd THEN Overlay(contacts[i], l.upd[i])
        ELSE contacts[i]]

\* the id sequence and the clock are shared by all transactions
UsedIds == DOMAIN contacts \cup UNION {DOMAIN tx[q].ins : q \in Procs}

SharedNextId == IF UsedIds = {} THEN 1 ELSE Max(UsedIds) + 1

SharedLastTime ==
    Max({0} \cup {contacts[i].createdAt : i \in DOMAIN contacts}
            \cup UNION {{tx[q].ins[i].createdAt : i \in DOMAIN tx[q].ins} : q \in Procs})

SharedCreationTimes == {t \in {SharedLastTime, SharedLastTime + 1} : t <= MaxTime}

\* the row is locked by an UPDATE of another open transaction
LockedByOther(p, id) == \E q \in Procs \ {p} : Open(q) /\ id \in DOMAIN tx[q].upd

\* tx.contact.update inside the transaction
TxUpdate(l, id, data) ==
    [l EXCEPT !.upd =
        [i \in DOMAIN l.upd \cup {id} |->
            IF i = id
            THEN (IF id \in DOMAIN l.upd THEN Overlay(l.upd[id], data) ELSE data)
            ELSE l.upd[i]]]

\* tx.contact.create inside the transaction
TxCreate(l, row) ==
    [l EXCEPT !.ins = [i \in DOMAIN l.ins \cup {row.id} |->
                            IF i = row.id THEN row ELSE l.ins[i]]]

\* the transaction ends: nothing of its locals is used again
Ended(l, response) ==
    [IdleTx EXCEPT !.pc = "done", !.email = l.email,
                   !.phoneNumber = l.phoneNumber, !.resp = response]

\* lines 98-111: the synchronous head of resolvePrimary, reached when the
\* loop of collectFullCluster ends.  With no primary, refreshCluster throws
\* on primary.id and the transaction is rolled back.
Resolve(l) ==
    LET sorted == SortByCreatedAt(l.contactMap, <<>>)
        primaries == SelectSeq(sorted, IsPrimary)
    IN IF Len(primaries) = 0 THEN Ended(l, ErrorResponse(500))
       ELSE IF Len(primaries) = 1
       THEN [l EXCEPT !.primary = primaries, !.pc = "refresh"]
       ELSE LET ordered == SortByCreatedAt(primaries, <<>>)
            IN [l EXCEPT !.primary = <<ordered[1]>>, !.newer = Tail(ordered),
                         !.pc = "demote"]

\* line 75: the next round of the loop over primaryIds, or its end
NextPrimaryId(l) ==
    IF l.primaryIds = <<>> THEN Resolve(l)
    ELSE [l EXCEPT !.pc = IF MapHas(l.contactMap, Head(l.primaryIds))
                          THEN "collectSecondaries" ELSE "collectPrimary"]

\* line 112: the next round of the loop over the newer primaries, or its end
NextNewer(l) ==
    LET rest == Tail(l.newer)
    IN [l EXCEPT !.newer = rest, !.secondaries = <<>>,
                 !.pc = IF rest = <<>> THEN "refresh" ELSE "demote"]

\* the controller takes a request; a refused one opens no transaction
Begin(p) ==
    /\ tx[p].pc = "idle"
    /\ \E e \in RawEmails, ph \in RawPhones :
       \E b \in {[email |-> e, phoneNumber |-> ph]} :
          tx' = [tx EXCEPT ![p] =
                    IF Rejected(b) THEN Ended(IdleTx, ErrorResponse(400))
                    ELSE [IdleTx EXCEPT !.pc = "match",
                                        !.email = ServiceEmail(b),
                                        !.phoneNumber = ServicePhone(b)]]
    /\ pre' = IF AllIdle THEN contacts ELSE pre
    /\ UNCHANGED <<contacts, body, resp, ops, repeat>>

\* lines 10-20 and 60-73
Match(p) ==
    /\ tx[p].pc = "match"
    /\ LET l == tx[p]
           matchingContacts == findMatchingContacts(View(l), l.email, l.phoneNumber)
       IN tx' = [tx EXCEPT ![p] =
                    IF Len(matchingContacts) = 0
                    THEN [l EXCEPT !.pc = "createPrimary"]
                    ELSE NextPrimaryId(
                            [l EXCEPT !.contactMap = MapSetAll(<<>>, matchingContacts),
                                      !.primaryIds = PrimaryIdsOf(matchingContacts, <<>>)])]
    /\ UNCHANGED <<contacts, pre, body, resp, ops, repeat>>

\* lines 31-37
CreatePrimary(p) ==
    /\ tx[p].pc = "createPrimary"
    /\ \E now \in SharedCreationTimes :
          LET l == tx[p]
              newContact == NewRow(SharedNextId, l.email, l.phoneNumber, 0, PRIMARY, now)
          IN tx' = [tx EXCEPT ![p] =
                       [TxCreate(l, newContact) EXCEPT
                            !.resp = buildResponse(newContact, <<>>), !.pc = "commit"]]
    /\ UNCHANGED <<contacts, pre, body, resp, ops, repeat>>

\* lines 76-81
CollectPrimary(p) ==
    /\ tx[p].pc = "collectPrimary"
    /\ LET l == tx[p]
           found == findContactById(View(l), Head(l.primaryIds))
       IN tx' = [tx EXCEPT ![p] =
                    [l EXCEPT !.contactMap =
                                  IF found # <<>> /\ ~found[1].deleted
                                  THEN MapSet(l.contactMap, found[1])
                                  ELSE l.contactMap,
                              !.pc = "collectSecondaries"]]
    /\ UNCHANGED <<contacts, pre, body, resp, ops, repeat>>

\* lines 83-86
CollectSecondaries(p) ==
    /\ tx[p].pc = "collectSecondaries"
    /\ LET l == tx[p]
           found == findContactsByPrimaryId(View(l), Head(l.primaryIds))
       IN tx' = [tx EXCEPT ![p] =
                    NextPrimaryId([l EXCEPT !.contactMap = MapSetAll(l.contactMap, found),
                                            !.primaryIds = Tail(l.primaryIds)])]
    /\ UNCHANGED <<contacts, pre, body, resp, ops, repeat>>

\* lines 115-118
Demote(p) ==
    /\ tx[p].pc = "demote"
    /\ ~LockedByOther(p, Head(tx[p].newer).id)
    /\ LET l == tx[p]
       IN tx' = [tx EXCEPT ![p] =
                    [TxUpdate(l, Head(l.newer).id,
                              [linkedId |-> l.primary[1].id, linkPrecedence |-> SECONDARY])
                     EXCEPT !.pc = "findNewerSecondaries"]]
    /\ UNCHANGED <<contacts, pre, body, resp, ops, repeat>>

\* lines 120-123
FindNewerSecondaries(p) ==
    /\ tx[p].pc = "findNewerSecondaries"
    /\ LET l == tx[p]
           found == findContactsByPrimaryId(View(l), Head(l.newer).id)
       IN tx' = [tx EXCEPT ![p] =
                    IF found = <<>> THEN NextNewer(l)
                    ELSE [l EXCEPT !.secondaries = found, !.pc = "relink"]]
    /\ UNCHANGED <<contacts, pre, body, resp, ops, repeat>>

\* lines 124-128
Relink(p) ==
    /\ tx[p].pc = "relink"
    /\ ~LockedByOther(p, Head(tx[p].secondaries).id)
    /\ LET l == tx[p]
           updated == TxUpdate(l, Head(l.secondaries).id, [linkedId |-> l.primary[1].id])
           rest == Tail(l.secondaries)
       IN tx' = [tx EXCEPT ![p] =
                    IF rest = <<>> THEN NextNewer(updated)
                    ELSE [updated EXCEPT !.secondaries = rest]]
    /\ UNCHANGED <<contacts, pre, body, resp, ops, repeat>>

\* line 48 and lines 148-165
Refresh(p) ==
    /\ tx[p].pc = "refresh"
    /\ LET l == tx[p]
           updatedCluster == refreshCluster(View(l), l.primary[1])
       IN tx' = [tx EXCEPT ![p] =
                    [l EXCEPT !.pc =
                        IF CreatesSecondary(updatedCluster, l.primary[1],
                                            l.email, l.phoneNumber)
                        THEN "createSecondary" ELSE "finalRefresh"]]
    /\ UNCHANGED <<contacts, pre, body, resp, ops, repeat>>

\* lines 172-177
CreateSecondary(p) ==
    /\ tx[p].pc = "createSecondary"
    /\ \E now \in SharedCreationTimes :
          LET l == tx[p]
          IN tx' = [tx EXCEPT ![p] =
                       [TxCreate(l, NewRow(SharedNextId, l.email, l.phoneNumber,
                                           l.primary[1].id, SECONDARY, now))
                        EXCEPT !.pc = "finalRefresh"]]
    /\ UNCHANGED <<contacts, pre, body, resp, ops, repeat>>

\* lines 52-53
FinalRefresh(p) ==
    /\ tx[p].pc = "finalRefresh"
    /\ LET l == tx[p]
           finalCluster == refreshCluster(View(l), l.primary[1])
       IN tx' = [tx EXCEPT ![p] =
                    [l EXCEPT !.resp = buildResponse(l.primary[1], finalCluster),
                              !.pc = "commit"]]
    /\ UNCHANGED <<contacts, pre, body, resp, ops, repeat>>

\* the callback of $transaction has returned: COMMIT
Commit(p) ==
    /\ tx[p].pc = "commit"
    /\ contacts' = View(tx[p])
    /\ tx' = [tx EXCEPT ![p] = Ended(tx[p], tx[p].resp)]
    /\ UNCHANGED <<pre, body, resp, ops, repeat>>

\* the UPDATE the transaction is about to run waits for a row lock
WaitsForLock(p) ==
    \/ tx[p].pc = "demote" /\ LockedByOther(p, Head(tx[p].newer).id)
    \/ tx[p].pc = "relink" /\ LockedByOther(p, Head(tx[p].secondaries).id)

\* $transaction was given no timeout (line 9): an interactive transaction
\* that is still waiting when the client's default expires is rolled back
\* and the awaited update rejects.  identify does not catch, the controller
\* passes the error to next (part_001 lines 33-35) and the middleware
\* answers 500; nothing runs the call again.
LockWaitTimeout(p) ==
    /\ WaitsForLock(p)
    /\ tx' = [tx EXCEPT ![p] =
                 [Ended(tx[p], ErrorResponse(500)) EXCEPT !.conflict = TRUE]]
    /\ UNCHANGED <<contacts, pre, body, resp, ops, repeat>>

\* a request that ran alone before the concurrent ones
Seed ==
    /\ AllIdle
    /\ \E e \in RawEmails, ph \in RawPhones, now \in CreationTimes(contacts) :
       \E r \in {controllerIdentify(contacts, [email |-> e, phoneNumber |-> ph], now)} :
          /\ Cardinality(DOMAIN r.db) <= MaxSeed
          /\ contacts' = r.db
    /\ UNCHANGED <<pre, body, resp, ops, repeat, tx>>

Step(p) ==
    \/ Begin(p)
    \/ Match(p)
    \/ CreatePrimary(p)
    \/ CollectPrimary(p)
    \/ CollectSecondaries(p)
    \/ Demote(p)
    \/ FindNewerSecondaries(p)
    \/ Relink(p)
    \/ Refresh(p)
    \/ CreateSecondary(p)
    \/ FinalRefresh(p)
    \/ Commit(p)
    \/ LockWaitTimeout(p)

NextConcurrent == Seed \/ \E p \in Procs : Step(p)

SpecConcurrent == Init /\ [][NextConcurrent]_vars

----------------------------------------------------------------------------
(* What the claims speak of *)

\* the last request was answered by the service (it was not refused)
Served == resp.status = 200

\* the arguments of the last service call
ReqEmail == ServiceEmail(body)

ReqPhone == ServicePhone(body)

\* the primary a row belongs to: itself, or the row its linkedId names
PrimaryOf(db, i) == IF db[i].linkPrecedence = PRIMARY THEN i ELSE db[i].linkedId

\* the rows the last call created
Created == DOMAIN contacts \ DOMAIN pre

\* the rows of before the last call that it changed
Changed == {i \in DOMAIN pre : contacts[i] # pre[i]}

HoldsEmail(db, S, email) == \E i \in S : ~db[i].deleted /\ db[i].email = email

HoldsPhone(db, S, phoneNumber) ==
    \E i \in S : ~db[i].deleted /\ db[i].phoneNumber = phoneNumber

\* the members of the cluster of primary P
ClusterOf(db, P) == {i \in DOMAIN db : PrimaryOf(db, i) = P}

StarTopologyOf(db) ==
    \A i \in DOMAIN db :
        /\ db[i].linkPrecedence = SECONDARY =>
              /\ db[i].linkedId \in DOMAIN db
              /\ db[db[i].linkedId].linkPrecedence = PRIMARY
        /\ db[i].linkPrecedence = PRIMARY => db[i].linkedId = 0

\* C1: after every completed call that ran alone, every secondary's linkedId
\* names an existing primary (never a secondary) and every primary's linkedId
\* is null.
C1_StarTopology == StarTopologyOf(contacts)

\* a merge has demoted a primary that had a secondary of its own
C1_Witness ==
    /\ Served
    /\ \E d \in DOMAIN pre, k \in DOMAIN pre :
          /\ pre[d].linkPrecedence = PRIMARY
          /\ contacts[d].linkPrecedence = SECONDARY
          /\ pre[k].linkedId = d
          /\ contacts[k].linkedId = contacts[d].linkedId

\* the email of the last call matches the cluster of P1, its phone the
\* cluster of another primary P2, and P1 is strictly older
MergeCase(P1, P2) ==
    /\ Served
    /\ P1 # P2
    /\ pre[P1].linkPrecedence = PRIMARY
    /\ pre[P2].linkPrecedence = PRIMARY
    /\ Truthy(ReqEmail) /\ HoldsEmail(pre, ClusterOf(pre, P1), ReqEmail)
    /\ Truthy(ReqPhone) /\ HoldsPhone(pre, ClusterOf(pre, P2), ReqPhone)
    /\ pre[P1].createdAt < pre[P2].createdAt

\* C2: when the email matches the cluster of P1 and the phone the cluster of
\* a younger primary P2, then after the call P1 is primary, P2 is a secondary
\* of P1, every row that was linked to P2 is linked to P1, and the response
\* names P1.
C2_MergePicksOldest ==
    \A P1 \in DOMAIN pre, P2 \in DOMAIN pre :
        MergeCase(P1, P2) =>
            /\ contacts[P1].linkPrecedence = PRIMARY
            /\ contacts[P1].linkedId = 0
            /\ contacts[P2].linkPrecedence = SECONDARY
            /\ contacts[P2].linkedId = P1
            /\ \A k \in DOMAIN pre : pre[k].linkedId = P2 => contacts[k].linkedId = P1
            /\ resp.primaryContactId = P1

\* a merge whose younger primary had a secondary
C2_Witness ==
    \E P1 \in DOMAIN pre, P2 \in DOMAIN pre :
        /\ MergeCase(P1, P2)
        /\ \E k \in DOMAIN pre : pre[k].linkedId = P2

\* C3: a call that repeats the arguments (at least one present) of the call
\* before it creates no row, changes no row and returns the same response.
C3_Idempotent ==
    [][(resp.status = 200 /\ SameArguments(body, body')
            /\ (Truthy(ServiceEmail(body')) \/ Truthy(ServicePhone(body'))))
        => (contacts' = contacts /\ resp' = resp)]_vars

\* a call has repeated the one before it, which had created a row
C3_Witness ==
    /\ repeat /\ Served
    /\ Truthy(ReqEmail) \/ Truthy(ReqPhone)
    /\ contacts = pre
    /\ \E i \in DOMAIN contacts :
          /\ i = Max(DOMAIN contacts)
          /\ contacts[i].email = ReqEmail
          /\ contacts[i].phoneNumber = ReqPhone
          /\ contacts[i].linkPrecedence = SECONDARY

\* the cluster the last call resolved to
ResolvedCluster == ClusterOf(contacts, resp.primaryContactId) \cap DOMAIN pre

\* C7 (as claimed): a call creates a secondary only if the supplied email or
\* the supplied phone is held by no member of the resolved cluster.
C7_OnlyNewInformation ==
    \A n \in Created :
        (Served /\ contacts[n].linkPrecedence = SECONDARY) =>
            \/ Truthy(ReqEmail) /\ ~HoldsEmail(contacts, ResolvedCluster, ReqEmail)
            \/ Truthy(ReqPhone) /\ ~HoldsPhone(contacts, ResolvedCluster, ReqPhone)

\* no live row holds the supplied email or the supplied phone
NoMatch ==
    /\ ~(Truthy(ReqEmail) /\ HoldsEmail(pre, DOMAIN pre, ReqEmail))
    /\ ~(Truthy(ReqPhone) /\ HoldsPhone(pre, DOMAIN pre, ReqPhone))

\* C8: when no live row holds the supplied email or phone, the call creates
\* exactly one row, a primary with a null linkedId and the supplied values,
\* changes no other row, and answers with that row and no secondary.
C8_NoMatchCreatesPrimary ==
    (resp.status # 0 /\ ~Rejected(body) /\ NoMatch) =>
        /\ Served
        /\ Changed = {}
        /\ \E n \in Created :
              /\ Created = {n}
              /\ contacts[n].linkPrecedence = PRIMARY
              /\ contacts[n].linkedId = 0
              /\ contacts[n].email = ReqEmail
              /\ contacts[n].phoneNumber = ReqPhone
              /\ ~contacts[n].deleted
              /\ resp.primaryContactId = n
        /\ resp.secondaryContactIds = <<>>

\* a no-match call on a table that already held rows
C8_Witness ==
    /\ Served /\ ~Rejected(body) /\ NoMatch
    /\ pre # EmptyTable
    /\ Truthy(ReqEmail) /\ Truthy(ReqPhone)
    /\ Cardinality(Created) = 1

\* both values are supplied, exactly one is held by a row of the cluster of
\* P and the other by no row of the table
PartialMatch(P) ==
    /\ resp.status # 0 /\ ~Rejected(body)
    /\ Truthy(ReqEmail) /\ Truthy(ReqPhone)
    /\ pre[P].linkPrecedence = PRIMARY
    /\ \/ /\ HoldsEmail(pre, ClusterOf(pre, P), ReqEmail)
          /\ ~HoldsPhone(pre, DOMAIN pre, ReqPhone)
       \/ /\ HoldsPhone(pre, ClusterOf(pre, P), ReqPhone)
          /\ ~HoldsEmail(pre, DOMAIN pre, ReqEmail)

\* C9: on a partial match the call creates exactly one row, a secondary with
\* both supplied values linked to the primary of the matched cluster (not to
\* a matched secondary); the response names that primary and lists the row.
C9_PartialMatchCreatesSecondary ==
    \A P \in DOMAIN pre :
        PartialMatch(P) =>
            /\ Served
            /\ \E n \in Created :
                  /\ Created = {n}
                  /\ contacts[n].linkPrecedence = SECONDARY
                  /\ contacts[n].email = ReqEmail
                  /\ contacts[n].phoneNumber = ReqPhone
                  /\ contacts[n].linkedId = P
                  /\ Includes(resp.secondaryContactIds, n)
            /\ resp.primaryContactId = P

\* a partial match in which every matched row is a secondary
C9_Witness ==
    \E P \in DOMAIN pre :
        /\ PartialMatch(P)
        /\ Created # {}
        /\ \A i \in DOMAIN pre :
              (pre[i].email = ReqEmail \/ pre[i].phoneNumber = ReqPhone)
                  => pre[i].linkPrecedence = SECONDARY

BlankOrAbsent(v) == v = UNDEFINED \/ v = NULL \/ v = <<>>

\* C10: a request whose email and phoneNumber are both absent or empty is
\* answered 400 and makes no query and no write on the table.
C10_NullInputRejected ==
    (resp.status # 0 /\ BlankOrAbsent(body.email) /\ BlankOrAbsent(body.phoneNumber)) =>
        /\ resp.status = 400
        /\ ops.reads = 0
        /\ ops.writes = 0
        /\ contacts = pre

\* a request with an empty email and no phoneNumber refused on a table with rows
C10_Witness ==
    /\ resp.status = 400
    /\ body.email = <<>> /\ body.phoneNumber = UNDEFINED
    /\ contacts # EmptyTable

----------------------------------------------------------------------------
(* Claims about requests that run concurrently *)

BothAnswered == \A q \in Procs : tx[q].pc = "done" /\ tx[q].resp.status = 200

\* both requests carry the same arguments, at least one present, and no row
\* held either value when the first of them began
SameNewPair ==
    /\ tx[1].email = tx[2].email
    /\ tx[1].phoneNumber = tx[2].phoneNumber
    /\ Truthy(tx[1].email) \/ Truthy(tx[1].phoneNumber)
    /\ ~(Truthy(tx[1].email) /\ HoldsEmail(pre, DOMAIN pre, tx[1].email))
    /\ ~(Truthy(tx[1].phoneNumber) /\ HoldsPhone(pre, DOMAIN pre, tx[1].phoneNumber))

\* C4 (as claimed): two concurrent calls with the same brand-new pair leave
\* exactly one primary created for it, and both calls answer with it.
C4_OnePrimaryForNewPair ==
    (BothAnswered /\ SameNewPair) =>
        /\ Cardinality({i \in DOMAIN contacts \ DOMAIN pre :
                            contacts[i].linkPrecedence = PRIMARY}) = 1
        /\ tx[1].resp.primaryContactId = tx[2].resp.primaryContactId

\* every row that holds a value of the call of q lies under one primary
UnderOnePrimary(q) ==
    \E P \in DOMAIN contacts :
        \A i \in DOMAIN contacts :
            (\/ Truthy(tx[q].email) /\ contacts[i].email = tx[q].email
             \/ Truthy(tx[q].phoneNumber) /\ contacts[i].phoneNumber = tx[q].phoneNumber)
                => PrimaryOf(contacts, i) = P

\* C5 (as claimed): after two concurrent calls have completed the table is a
\* star (no secondary is linked to a secondary) and the rows each call
\* matched lie under exactly one primary.
C5_ConsistentConcurrentMerges ==
    BothAnswered =>
        /\ StarTopologyOf(contacts)
        /\ \A q \in Procs : UnderOnePrimary(q)

NoDuplicatePairOf(db) ==
    \A i \in DOMAIN db, j \in DOMAIN db :
        (i # j /\ PrimaryOf(db, i) = PrimaryOf(db, j)) =>
            ~(db[i].email = db[j].email /\ db[i].phoneNumber = db[j].phoneNumber)

\* C6 (as claimed): in every reachable state, whether calls run one at a time
\* or concurrently, no cluster holds two rows with the same (email,
\* phoneNumber) pair.
C6_NoDuplicatePair == NoDuplicatePairOf(contacts)

----------------------------------------------------------------------------
(* Further claims about requests that run one at a time *)

\* C11 (as claimed): every row of the table has a non-null email or a
\* non-null phoneNumber: the service is never called with both arguments
\* null or empty, whatever blank or absent fields the requests carry.
C11_EveryContactHasIdentifier ==
    \A i \in DOMAIN contacts :
        Truthy(contacts[i].email) \/ Truthy(contacts[i].phoneNumber)


\* the elements of a list, and a list that holds no value twice
Elements(list) == {list[k] : k \in 1..Len(list)}

NoRepeat(list) == \A k \in 1..Len(list), m \in 1..Len(list) : k # m => list[k] # list[m]

\* the live rows whose linkedId is P
LinkedTo(db, P) == {i \in DOMAIN db : ~db[i].deleted /\ db[i].linkedId = P}

\* the primary the response names and the live rows linked to it
AnsweredCluster == {resp.primaryContactId} \cup LinkedTo(contacts, resp.primaryContactId)

\* C12: in the response of every completed call, emails holds no value twice,
\* starts with the primary's email when that is non-null, and as a set is the
\* set of non-null emails of the primary and the live rows linked to it; the
\* same holds for phoneNumbers and the primary's phoneNumber.
C12_ResponseValues ==
    Served =>
        /\ NoRepeat(resp.emails)
        /\ Truthy(contacts[resp.primaryContactId].email) =>
              /\ resp.emails # <<>>
              /\ resp.emails[1] = contacts[resp.primaryContactId].email
        /\ Elements(resp.emails) =
              {contacts[i].email : i \in {j \in AnsweredCluster : Truthy(contacts[j].email)}}
        /\ NoRepeat(resp.phoneNumbers)
        /\ Truthy(contacts[resp.primaryContactId].phoneNumber) =>
              /\ resp.phoneNumbers # <<>>
              /\ resp.phoneNumbers[1] = contacts[resp.primaryContactId].phoneNumber
        /\ Elements(resp.phoneNumbers) =
              {contacts[i].phoneNumber :
                  i \in {j \in AnsweredCluster : Truthy(contacts[j].phoneNumber)}}

\* a response with two emails and two phone numbers for a cluster in which a
\* secondary repeats the primary's email and another its phone number
C12_Witness ==
    /\ Served
    /\ Len(resp.emails) = 2 /\ Len(resp.phoneNumbers) = 2
    /\ \E i \in LinkedTo(contacts, resp.primaryContactId),
          j \in LinkedTo(contacts, resp.primaryContactId) :
          /\ Truthy(contacts[i].email)
          /\ contacts[i].email = contacts[resp.primaryContactId].email
          /\ Truthy(contacts[j].phoneNumber)
          /\ contacts[j].phoneNumber = contacts[resp.primaryContactId].phoneNumber


\* C13: in the response of every completed call, secondaryContactIds lists,
\* each once and in createdAt ascending order, exactly the live rows whose
\* linkedId is primaryContactId (the primary this call demoted, the rows it
\* re-pointed and the secondary it created among them); it never holds
\* primaryContactId, and the row primaryContactId names is a primary.
C13_SecondaryContactIds ==
    Served =>
        /\ NoRepeat(resp.secondaryContactIds)
        /\ Elements(resp.secondaryContactIds) = LinkedTo(contacts, resp.primaryContactId)
        /\ \A k \in 1..Len(resp.secondaryContactIds), m \in 1..Len(resp.secondaryContactIds) :
              k < m => contacts[resp.secondaryContactIds[k]].createdAt
                          <= contacts[resp.secondaryContactIds[m]].createdAt
        /\ \A i \in Changed \cup Created :
              contacts[i].linkPrecedence = SECONDARY =>
                  Includes(resp.secondaryContactIds, i)
        /\ ~Includes(resp.secondaryContactIds, resp.primaryContactId)
        /\ contacts[resp.primaryContactId].linkPrecedence = PRIMARY

\* a call that demoted a primary, re-pointed its secondary and created a
\* secondary, answered with the three of them
C13_Witness ==
    /\ Served
    /\ Len(resp.secondaryContactIds) = 3
    /\ \E d \in Changed, k \in Changed, n \in Created :
          /\ pre[d].linkPrecedence = PRIMARY
          /\ pre[k].linkedId = d
          /\ contacts[n].linkPrecedence = SECONDARY


----------------------------------------------------------------------------
(* Further claims about requests that run concurrently *)

\* C14 (as claimed): a call whose transaction was rolled back by a conflict
\* with a concurrent call is run again from the match step; its first
\* rollback is not what the caller is answered with.
C14_RetryOnConflict ==
    \A p \in Procs :
        tx[p].conflict => ~(tx[p].pc = "done" /\ tx[p].resp.status = 500)


----------------------------------------------------------------------------
(* Further claims about requests that run one at a time *)

\* the call turned primary i into a secondary
Demoted(i) ==
    /\ i \in DOMAIN pre
    /\ pre[i].linkPrecedence = PRIMARY
    /\ contacts[i].linkPrecedence = SECONDARY

\* C15: a call removes no row and changes no email, phoneNumber, createdAt
\* or deletedAt of a row; it changes linkPrecedence and linkedId only, and
\* only of the primaries it demotes and of the rows that were linked to a
\* primary it demotes; every other row is left as it was.
C15_Frame ==
    \A i \in DOMAIN pre :
        /\ i \in DOMAIN contacts
        /\ contacts[i].id = pre[i].id
        /\ contacts[i].email = pre[i].email
        /\ contacts[i].phoneNumber = pre[i].phoneNumber
        /\ contacts[i].createdAt = pre[i].createdAt
        /\ contacts[i].deleted = pre[i].deleted
        /\ contacts[i] # pre[i] => Demoted(i) \/ Demoted(pre[i].linkedId)

\* a merge that demoted a primary and re-pointed its secondary, and left
\* the surviving primary as it was
C15_Witness ==
    /\ Served
    /\ Cardinality(Changed) = 2
    /\ \E d \in Changed, k \in Changed :
          /\ Demoted(d)
          /\ pre[k].linkedId = d
          /\ contacts[k].linkedId = resp.primaryContactId
    /\ resp.primaryContactId \in DOMAIN pre \ Changed


\* C16: a row that is a secondary is a secondary with a non-null linkedId in
\* every later state: no step turns a secondary into a primary.
C16_DemotionPermanent ==
    [][\A i \in DOMAIN contacts :
          contacts[i].linkPrecedence = SECONDARY =>
              /\ i \in DOMAIN contacts'
              /\ contacts'[i].linkPrecedence = SECONDARY
              /\ contacts'[i].linkedId # 0]_vars

\* a call that matched a row which was already a secondary, demoted a
\* primary, and left the matched row a secondary
C16_Witness ==
    /\ Served
    /\ \E k \in DOMAIN pre, d \in DOMAIN pre :
          /\ pre[k].linkPrecedence = SECONDARY
          /\ \/ Truthy(ReqEmail) /\ pre[k].email = ReqEmail
             \/ Truthy(ReqPhone) /\ pre[k].phoneNumber = ReqPhone
          /\ contacts[k].linkPrecedence = SECONDARY
          /\ contacts[k].linkedId # 0
          /\ Demoted(d)


----------------------------------------------------------------------------
(* Claims about what a call would do in a given table *)

\* the requests a client may send
Bodies == [email : RawEmails, phoneNumber : WidePhones]

\* the request holds a value of the cluster of P1 and a value of the cluster
\* of P2, one in each field
Connects(db, b, P1, P2) ==
    /\ ~Rejected(b)
    /\ Truthy(ServiceEmail(b)) /\ Truthy(ServicePhone(b))
    /\ \/ /\ HoldsEmail(db, ClusterOf(db, P1), ServiceEmail(b))
          /\ HoldsPhone(db, ClusterOf(db, P2), ServicePhone(b))
       \/ /\ HoldsEmail(db, ClusterOf(db, P2), ServiceEmail(b))
          /\ HoldsPhone(db, ClusterOf(db, P1), ServicePhone(b))

\* the primaries the requests that connect the clusters of P1 and P2 answer with
MergeWinners(db, P1, P2) ==
    {controllerIdentify(db, b, LastTime(db)).resp.primaryContactId :
        b \in {c \in Bodies : Connects(db, c, P1, P2)}}

\* C17 (as claimed): in a table that holds two clusters, also when their
\* primaries have the same createdAt, every request that connects the two
\* clusters leaves the same row as the surviving primary, whichever rows of
\* the clusters it matches.
C17_DeterministicMergeWinner ==
    \A P1 \in DOMAIN contacts, P2 \in DOMAIN contacts :
        (/\ P1 < P2
         /\ contacts[P1].linkPrecedence = PRIMARY
         /\ contacts[P2].linkPrecedence = PRIMARY)
            => Cardinality(MergeWinners(contacts, P1, P2)) <= 1


\* the request matches a live secondary whose linkedId names no live primary
MatchesBrokenLink(db, b) ==
    /\ ~Rejected(b)
    /\ \E i \in DOMAIN db :
          /\ ~db[i].deleted
          /\ \/ Truthy(ServiceEmail(b)) /\ db[i].email = ServiceEmail(b)
             \/ Truthy(ServicePhone(b)) /\ db[i].phoneNumber = ServicePhone(b)
          /\ db[i].linkPrecedence = SECONDARY
          /\ \/ db[i].linkedId \notin DOMAIN db
             \/ db[db[i].linkedId].linkPrecedence # PRIMARY
             \/ db[db[i].linkedId].deleted

\* C18 (as claimed): a call on a table in which a matched secondary's
\* linkedId names a row that is not a live primary ends in failure and
\* creates or changes no row, whatever else the request matches.
C18_InvariantViolationSurfaced ==
    \A b \in Bodies :
        MatchesBrokenLink(contacts, b) =>
            \E r \in {controllerIdentify(contacts, b, LastTime(contacts))} :
                /\ r.resp.status # 200
                /\ r.db = contacts


----------------------------------------------------------------------------
(* Invariants of the table when requests run one at a time *)

\* rows i and j hold the same non-null email or the same non-null phoneNumber
SharesIdentifier(db, i, j) ==
    \/ Truthy(db[i].email) /\ db[i].email = db[j].email
    \/ Truthy(db[i].phoneNumber) /\ db[i].phoneNumber = db[j].phoneNumber

\* C19: after every call that ran alone, two rows that hold the same
\* non-null email or the same non-null phoneNumber lie in one cluster (the
\* same primary is the row itself or its linkedId); and no call demotes more
\* than one primary.
C19_OneClusterPerIdentifier ==
    /\ \A i \in DOMAIN contacts, j \in DOMAIN contacts :
          SharesIdentifier(contacts, i, j) =>
              PrimaryOf(contacts, i) = PrimaryOf(contacts, j)
    /\ Cardinality({d \in DOMAIN pre : Demoted(d)}) <= 1

\* a call demoted a primary and created a row that shares one value with
\* the surviving primary and the other with the demoted one
C19_Witness ==
    /\ Served
    /\ \E d \in DOMAIN pre, n \in Created :
          /\ Demoted(d)
          /\ SharesIdentifier(contacts, n, d)
          /\ SharesIdentifier(contacts, n, resp.primaryContactId)
          /\ ~SharesIdentifier(contacts, d, resp.primaryContactId)


\* C20: between calls that run one at a time, the createdAt of each primary
\* is less than or equal to the createdAt of every row whose linkedId names
\* it.
C20_PrimaryIsOldest ==
    \A i \in DOMAIN contacts :
        (contacts[i].linkPrecedence = SECONDARY /\ contacts[i].linkedId \in DOMAIN contacts)
            => contacts[contacts[i].linkedId].createdAt <= contacts[i].createdAt

\* a cluster made by a merge: its primary is strictly older than the primary
\* the merge demoted, and the secondary the merge re-pointed is younger still
C20_Witness ==
    \E P \in DOMAIN contacts, d \in DOMAIN pre, k \in DOMAIN pre :
        /\ Demoted(d)
        /\ contacts[d].linkedId = P
        /\ pre[k].linkedId = d
        /\ contacts[k].linkedId = P
        /\ contacts[P].createdAt < contacts[d].createdAt
        /\ contacts[d].createdAt <= contacts[k].createdAt


\* the service was called with an email and no phone, or a phone and no email
SingleField ==
    /\ resp.status # 0 /\ ~Rejected(body)
    /\ Truthy(ReqEmail) # Truthy(ReqPhone)

\* C21: a call that ran alone with only an email or only a phone creates one
\* primary when no row holds that value and creates no row otherwise; so
\* every row created as a secondary has a non-null email and a non-null
\* phoneNumber.
C21_SingleFieldNeverCreatesSecondary ==
    /\ SingleField =>
          IF NoMatch
          THEN \E n \in Created :
                  /\ Created = {n}
                  /\ contacts[n].linkPrecedence = PRIMARY
          ELSE Created = {}
    /\ \A n \in Created :
          contacts[n].linkPrecedence = SECONDARY =>
              Truthy(contacts[n].email) /\ Truthy(contacts[n].phoneNumber)

\* a call with one field whose value only secondaries of a merged cluster
\* hold, answered without creating a row
C21_Witness ==
    /\ Served /\ SingleField /\ ~NoMatch
    /\ Created = {}
    /\ Cardinality(DOMAIN pre) >= 3
    /\ \A i \in DOMAIN pre :
          (\/ Truthy(ReqEmail) /\ pre[i].email = ReqEmail
           \/ Truthy(ReqPhone) /\ pre[i].phoneNumber = ReqPhone)
              => /\ pre[i].linkPrecedence = SECONDARY
                 /\ Truthy(pre[i].email) /\ Truthy(pre[i].phoneNumber)

====
